---- MODULE Spec2Model ----
(***************************************************************************)
(* Tournament statistics of scripts/visualize_elo_test.py: the game        *)
(* records, the two aggregations (calculate_overall_stats and              *)
(* calculate_head_to_head) and the text report built from them             *)
(* (generate_summary_report).                                              *)
(*                                                                         *)
(* Python floats are modelled as exact rationals [num, den] (den > 0).     *)
(* The quotients the code forms (score / games, total_plies /              *)
(* games_with_plies) have small integer operands, for which IEEE division  *)
(* is correctly rounded and monotone: two quotients compare as floats the  *)
(* way the rationals compare.                                              *)
(***************************************************************************)
EXTENDS Integers, Sequences, FiniteSets, TLC

\* ------------------------------------------------------------------ bounds

\* Longest record sequence drawn from all records.
MaxGames == 2

\* Longest record sequence drawn from the records between two different
\* sides that carry no PlyCount tag.
MaxPlainGames == 3

\* ------------------------------------------------------------- input sets

\* Identifiers that occur as a side of a record.
Competitors == {"A", "B"}

\* Identifiers a participant list may hold: the competitors and one that
\* never played.
Names == Competitors \cup {"C"}

\* Result strings: the two decisive literals, the canonical draw notation and
\* an unrecognized string.
Results == {"1-0", "0-1", "1/2-1/2", "*"}

\* PlyCount values: absent (0) and present.
PlyCounts == {0, 40}

\* ------------------------------------------------------------- data model

\* GameResult: the fields the aggregation reads.
GameResult == [white : Competitors, black : Competitors,
               result : Results, ply_count : PlyCounts]

\* The records between two different sides without a PlyCount tag.
PlainGame == {g \in GameResult : g.white # g.black /\ g.ply_count = 0}

\* PlayerStats(name=p): all counters at their defaults.
PlayerStats(p) ==
    [name |-> p, wins |-> 0, losses |-> 0, draws |-> 0,
     total_plies |-> 0, games_with_plies |-> 0]

\* A float as an exact rational.
Rat(n, d) == [num |-> n, den |-> d]

RatLess(a, b) == a.num * b.den < b.num * a.den

RatEq(a, b) == a.num * b.den = b.num * a.den

\* games counting the decisive results only (mutant of games_of).
games_decisive(s) == s.wins + s.losses

\* PlayerStats.games
games_of(s) == s.wins + s.losses + s.draws

\* PlayerStats.score: wins + 0.5 * draws
score(s) == Rat(2 * s.wins + s.draws, 2)

\* PlayerStats.score_percent
score_percent(s) ==
    IF games_of(s) = 0 THEN Rat(0, 1)
    ELSE Rat((2 * s.wins + s.draws) * 100, 2 * games_of(s))

\* PlayerStats.win_percent
win_percent(s) ==
    IF games_of(s) = 0 THEN Rat(0, 1)
    ELSE Rat(s.wins * 100, games_of(s))

\* PlayerStats.avg_game_length
avg_game_length(s) ==
    IF s.games_with_plies = 0 THEN Rat(0, 1)
    ELSE Rat(s.total_plies, s.games_with_plies)

\* ---------------------------------------------------------------- helpers

Range(s) == {s[k] : k \in DOMAIN s}

SeqsUpTo(S, n) == UNION {[1..k -> S] : k \in 0..n}

\* Lists without repetition over S.
DistinctLists(S) ==
    {l \in SeqsUpTo(S, Cardinality(S)) :
        \A j, k \in DOMAIN l : j # k => l[j] # l[k]}

\* ---------------------------------------------------------- get_all_players

\* String order of the identifiers of Names (single letters).
NameOrder == <<"A", "B", "C">>

NameRank(p) == CHOOSE k \in DOMAIN NameOrder : NameOrder[k] = p

RECURSIVE SortedList(_)
\* sorted(players): the ascending list of a set of strings.
SortedList(S) ==
    IF S = {} THEN <<>>
    ELSE LET m == CHOOSE x \in S : \A y \in S : NameRank(x) <= NameRank(y)
         IN  <<m>> \o SortedList(S \ {m})

\* The loop without players.add(game.black) (mutant of player_set).
player_set_whites(gs) == {gs[k].white : k \in DOMAIN gs}

\* players after the loop of lines 166-169.
player_set(gs) ==
    {gs[k].white : k \in DOMAIN gs} \cup {gs[k].black : k \in DOMAIN gs}

\* The orders in which iterating a set may yield its elements.
set_orders(S) == {l \in DistinctLists(S) : Len(l) = Cardinality(S)}

\* x put into an ascending list, behind the elements that are not greater.
insert_name(l, x) ==
    LET k == Cardinality({j \in DOMAIN l : NameRank(l[j]) <= NameRank(x)})
    IN  SubSeq(l, 1, k) \o <<x>> \o SubSeq(l, k + 1, Len(l))

RECURSIVE insertion_sort(_)
insertion_sort(l) ==
    IF l = <<>> THEN <<>>
    ELSE insert_name(insertion_sort(SubSeq(l, 1, Len(l) - 1)), l[Len(l)])

\* list(iterable) in the place of sorted(iterable) (mutant of sorted_names).
unsorted_names(order) == order

\* sorted(players) of line 170, players iterated in the given order.
sorted_names(order) == insertion_sort(order)

get_all_players(gs) ==
    SortedList({gs[k].white : k \in DOMAIN gs} \cup {gs[k].black : k \in DOMAIN gs})

\* ------------------------------------------------------ calculate_head_to_head

\* The matrix before any record: every pair of the list, self-pairs included,
\* at zero.
h2h_init(players) ==
    [p1 \in Range(players) |->
        [p2 \in Range(players) |-> [wins |-> 0, draws |-> 0, losses |-> 0]]]

\* h2h_step whose "1-0" branch leaves out the mirrored update (mutant of
\* h2h_step).
h2h_step_onesided(results, game, players) ==
    LET w == game.white
        b == game.black
    IN  IF w \notin Range(players) \/ b \notin Range(players) THEN results
        ELSE IF game.result = "1-0" THEN
            [results EXCEPT ![w][b].wins = @ + 1]
        ELSE IF game.result = "0-1" THEN
            LET r1 == [results EXCEPT ![w][b].losses = @ + 1]
            IN  [r1 EXCEPT ![b][w].wins = @ + 1]
        ELSE IF game.result = "1/2-1/2" THEN
            LET r1 == [results EXCEPT ![w][b].draws = @ + 1]
            IN  [r1 EXCEPT ![b][w].draws = @ + 1]
        ELSE results

\* h2h_step whose "0-1" branch credits the win to white (mutant of
\* h2h_step).
h2h_step_white_credit(results, game, players) ==
    LET w == game.white
        b == game.black
    IN  IF w \notin Range(players) \/ b \notin Range(players) THEN results
        ELSE IF game.result \in {"1-0", "0-1"} THEN
            LET r1 == [results EXCEPT ![w][b].wins = @ + 1]
            IN  [r1 EXCEPT ![b][w].losses = @ + 1]
        ELSE IF game.result = "1/2-1/2" THEN
            LET r1 == [results EXCEPT ![w][b].draws = @ + 1]
            IN  [r1 EXCEPT ![b][w].draws = @ + 1]
        ELSE results

\* One iteration of the loop over games. The two updates of a branch are
\* applied one after the other, as the two statements are.
h2h_step(results, game, players) ==
    LET w == game.white
        b == game.black
    IN  IF w \notin Range(players) \/ b \notin Range(players) THEN results
        ELSE IF game.result = "1-0" THEN
            LET r1 == [results EXCEPT ![w][b].wins = @ + 1]
            IN  [r1 EXCEPT ![b][w].losses = @ + 1]
        ELSE IF game.result = "0-1" THEN
            LET r1 == [results EXCEPT ![w][b].losses = @ + 1]
            IN  [r1 EXCEPT ![b][w].wins = @ + 1]
        ELSE IF game.result = "1/2-1/2" THEN
            LET r1 == [results EXCEPT ![w][b].draws = @ + 1]
            IN  [r1 EXCEPT ![b][w].draws = @ + 1]
        ELSE results

RECURSIVE calculate_head_to_head(_, _)
calculate_head_to_head(gs, players) ==
    IF gs = <<>> THEN h2h_init(players)
    ELSE h2h_step(calculate_head_to_head(SubSeq(gs, 1, Len(gs) - 1), players),
                  gs[Len(gs)], players)

\* ----------------------------------------------------- calculate_overall_stats

\* add_plies without the test ply_count > 0 (mutant of add_plies).
add_plies_always(s, game) ==
    [s EXCEPT !.total_plies = @ + game.ply_count,
              !.games_with_plies = @ + 1]

\* The ply accumulation of one side.
add_plies(s, game) ==
    IF game.ply_count > 0
    THEN [s EXCEPT !.total_plies = @ + game.ply_count,
                   !.games_with_plies = @ + 1]
    ELSE s

\* stats_white counting a draw only for "1/2-1/2" (mutant of stats_white).
stats_white_strict(stats, game) ==
    IF game.white \in DOMAIN stats THEN
        LET s  == stats[game.white]
            s1 == IF game.result = "1-0" THEN [s EXCEPT !.wins = @ + 1]
                  ELSE IF game.result = "0-1" THEN [s EXCEPT !.losses = @ + 1]
                  ELSE IF game.result = "1/2-1/2" THEN [s EXCEPT !.draws = @ + 1]
                  ELSE s
        IN  [stats EXCEPT ![game.white] = add_plies(s1, game)]
    ELSE stats

\* The white branch of one iteration.
stats_white(stats, game) ==
    IF game.white \in DOMAIN stats THEN
        LET s  == stats[game.white]
            s1 == IF game.result = "1-0" THEN [s EXCEPT !.wins = @ + 1]
                  ELSE IF game.result = "0-1" THEN [s EXCEPT !.losses = @ + 1]
                  ELSE [s EXCEPT !.draws = @ + 1]
        IN  [stats EXCEPT ![game.white] = add_plies(s1, game)]
    ELSE stats

\* stats_black counting a draw only for "1/2-1/2" (mutant of stats_black).
stats_black_strict(stats, game) ==
    IF game.black \in DOMAIN stats THEN
        LET s  == stats[game.black]
            s1 == IF game.result = "0-1" THEN [s EXCEPT !.wins = @ + 1]
                  ELSE IF game.result = "1-0" THEN [s EXCEPT !.losses = @ + 1]
                  ELSE IF game.result = "1/2-1/2" THEN [s EXCEPT !.draws = @ + 1]
                  ELSE s
        IN  [stats EXCEPT ![game.black] = add_plies(s1, game)]
    ELSE stats

\* stats_black that credits no win to black (mutant of stats_black).
stats_black_no_win(stats, game) ==
    IF game.black \in DOMAIN stats THEN
        LET s  == stats[game.black]
            s1 == IF game.result = "0-1" THEN s
                  ELSE IF game.result = "1-0" THEN [s EXCEPT !.losses = @ + 1]
                  ELSE [s EXCEPT !.draws = @ + 1]
        IN  [stats EXCEPT ![game.black] = add_plies(s1, game)]
    ELSE stats

\* The black branch of one iteration.
stats_black(stats, game) ==
    IF game.black \in DOMAIN stats THEN
        LET s  == stats[game.black]
            s1 == IF game.result = "0-1" THEN [s EXCEPT !.wins = @ + 1]
                  ELSE IF game.result = "1-0" THEN [s EXCEPT !.losses = @ + 1]
                  ELSE [s EXCEPT !.draws = @ + 1]
        IN  [stats EXCEPT ![game.black] = add_plies(s1, game)]
    ELSE stats

\* stats_step without the black branch (mutant of stats_step).
stats_step_white_only(stats, game) == stats_white(stats, game)

\* stats_step that skips a record unless both sides are listed (mutant of
\* stats_step).
stats_step_both_listed(stats, game) ==
    IF game.white \in DOMAIN stats /\ game.black \in DOMAIN stats
    THEN stats_black(stats_white(stats, game), game)
    ELSE stats

\* One iteration of the loop over games: white, then black.
stats_step(stats, game) == stats_black(stats_white(stats, game), game)

RECURSIVE calculate_overall_stats(_, _)
calculate_overall_stats(gs, players) ==
    IF gs = <<>> THEN [p \in Range(players) |-> PlayerStats(p)]
    ELSE stats_step(calculate_overall_stats(SubSeq(gs, 1, Len(gs) - 1), players),
                    gs[Len(gs)])

\* ----------------------------------------------------- generate_summary_report

\* ranks_above that also holds for equal keys (mutant of ranks_above).
ranks_above_or_level(x, y, stats) ==
    ~RatLess(score_percent(stats[x]), score_percent(stats[y]))

\* x is placed before y in the descending order: key(x) > key(y).
\* (line 672: key = score_percent, reverse = True)
ranks_above(x, y, stats) ==
    RatLess(score_percent(stats[y]), score_percent(stats[x]))

\* x entered into a list already in order: after every element it does not
\* rank above, so that equal keys keep the order in which they arrive.
insert_ranked(x, sorted, stats) ==
    LET below == {k \in DOMAIN sorted : ranks_above(x, sorted[k], stats)}
        pos   == IF below = {} THEN Len(sorted) + 1
                 ELSE CHOOSE k \in below : \A j \in below : k <= j
    IN  SubSeq(sorted, 1, pos - 1) \o <<x>> \o SubSeq(sorted, pos, Len(sorted))

RECURSIVE sorted_by_score_percent(_, _)
\* sorted(algorithms, key=lambda x: stats[x].score_percent, reverse=True):
\* Python's sort is stable, also with reverse=True.
sorted_by_score_percent(algorithms, stats) ==
    IF algorithms = <<>> THEN <<>>
    ELSE insert_ranked(algorithms[Len(algorithms)],
                       sorted_by_score_percent(
                           SubSeq(algorithms, 1, Len(algorithms) - 1), stats),
                       stats)

\* total = r['wins'] + r['draws'] + r['losses']
h2h_total(r) == r.wins + r.draws + r.losses

\* (r['wins'] + 0.5 * r['draws']) / total * 100, for total > 0
h2h_score_pct(r) == Rat((2 * r.wins + r.draws) * 100, 2 * h2h_total(r))

\* The head-to-head block (lines 685-697): per algorithm of the ranking, the
\* opponents, in ranking order, it gets a line against.
has_h2h_line(r) == h2h_total(r) > 0

h2h_opponents(algo, sorted_algos, h2h) ==
    LET Listed(opp) == algo # opp /\ has_h2h_line(h2h[algo][opp])
    IN  SelectSeq(sorted_algos, Listed)

\* dominates with score_pct >= 50 (mutant of dominates).
dominates_or_ties(r) ==
    /\ h2h_total(r) > 0
    /\ ~RatLess(h2h_score_pct(r), Rat(50, 1))

\* dominates for every opponent met (mutant of dominates).
dominates_whoever_met(r) == h2h_total(r) > 0

\* The dominance test of lines 723-727.
dominates(r) ==
    /\ h2h_total(r) > 0
    /\ RatLess(Rat(50, 1), h2h_score_pct(r))

\* The list "dominated" of one algorithm (lines 719-728): opponents in the
\* order of the participant list.
dominated_by(algo, algorithms, h2h) ==
    LET Dominated(opp) == algo # opp /\ dominates(h2h[algo][opp])
    IN  SelectSeq(algorithms, Dominated)

\* The row of the ranked table of one algorithm (lines 674-677).
ranking_row(algo, stats) ==
    [algo |-> algo, score |-> score(stats[algo]), games |-> games_of(stats[algo]),
     score_percent |-> score_percent(stats[algo]), wins |-> stats[algo].wins,
     draws |-> stats[algo].draws, losses |-> stats[algo].losses]

\* worst_algo read from the head of the ranking (mutant of worst_of).
worst_of_head(sorted_algos) == sorted_algos[1]

\* best_algo = sorted_algos[0] (line 705)
best_of(sorted_algos) == sorted_algos[1]

\* worst_algo = sorted_algos[-1] (line 706)
worst_of(sorted_algos) == sorted_algos[Len(sorted_algos)]

RECURSIVE flatten(_)
\* The lines of a sequence of blocks, one block after the other.
flatten(blocks) ==
    IF blocks = <<>> THEN <<>>
    ELSE flatten(SubSeq(blocks, 1, Len(blocks) - 1)) \o blocks[Len(blocks)]

\* The sections of the document, each as its lines.
report_sections(gs, algorithms, stats_l, h2h_l, sorted_algos) ==
    LET n == Len(sorted_algos)
        line(sec, what, value) == [section |-> sec, what |-> what, value |-> value]
        vs(algo) == h2h_opponents(algo, sorted_algos, h2h_l)
        dom(algo) == dominated_by(algo, algorithms, h2h_l)
    IN  [header |->
             <<line("header", "total", Len(gs)),
               line("header", "participants", algorithms)>>,
         ranking |->
             [k \in 1..n |-> line("ranking", k, ranking_row(sorted_algos[k], stats_l))],
         head_to_head |->
             flatten([k \in 1..n |->
                 <<line("head_to_head", sorted_algos[k], "title")>>
                     \o [j \in 1..Len(vs(sorted_algos[k])) |->
                            line("head_to_head", sorted_algos[k],
                                 vs(sorted_algos[k])[j])]]),
         conclusions |->
             <<line("conclusions", "best", best_of(sorted_algos)),
               line("conclusions", "worst", worst_of(sorted_algos))>>,
         dominance |->
             flatten([k \in 1..n |->
                 IF dom(sorted_algos[k]) = <<>> THEN <<>>
                 ELSE <<line("dominance", sorted_algos[k], dom(sorted_algos[k]))>>])]

\* The lines with the conclusions ahead of the ranked table (mutant of
\* report_lines).
report_lines_conclusions_first(gs, algorithms, stats_l, h2h_l, sorted_algos) ==
    LET sec == report_sections(gs, algorithms, stats_l, h2h_l, sorted_algos)
    IN  sec.header \o sec.conclusions \o sec.ranking \o sec.head_to_head
            \o sec.dominance

\* lines at line 732: header (657-665), ranked table (668-677), head-to-head
\* (680-697), conclusions (700-713), dominance (716-730).
report_lines(gs, algorithms, stats_l, h2h_l, sorted_algos) ==
    LET sec == report_sections(gs, algorithms, stats_l, h2h_l, sorted_algos)
    IN  sec.header \o sec.ranking \o sec.head_to_head \o sec.conclusions
            \o sec.dominance

\* The document generate_summary_report builds (lines 657-732) from the record
\* sequence, the participant list and its locals stats, h2h and sorted_algos,
\* section by section; the locals are kept with it.
report_document(gs, algorithms, stats_l, h2h_l, sorted_algos) ==
    LET n == Len(sorted_algos)
    IN  [stats        |-> stats_l,
         h2h          |-> h2h_l,
         lines        |-> report_lines(gs, algorithms, stats_l, h2h_l, sorted_algos),
         total_games  |-> Len(gs),
         algorithms   |-> algorithms,
         sorted_algos |-> sorted_algos,
         ranking      |-> [k \in 1..n |-> ranking_row(sorted_algos[k], stats_l)],
         head_to_head |-> [k \in 1..n |->
                             [algo |-> sorted_algos[k],
                              vs   |-> h2h_opponents(sorted_algos[k],
                                                     sorted_algos, h2h_l)]],
         best_algo    |-> best_of(sorted_algos),
         worst_algo   |-> worst_of(sorted_algos),
         dominance    |-> LET line(k) ==
                                  [algo |-> sorted_algos[k],
                                   dominated |-> dominated_by(sorted_algos[k],
                                                              algorithms, h2h_l)]
                              NonEmpty(l) == l.dominated # <<>>
                          IN  SelectSeq([k \in 1..n |-> line(k)], NonEmpty)]

\* The document of generate_summary_report for a non-empty participant list,
\* with the stats and the matrix it computed (lines 654-655) and the ranking
\* (line 672).
summary_report(gs, algorithms) ==
    LET stats_l == calculate_overall_stats(gs, algorithms)
        h2h_l   == calculate_head_to_head(gs, algorithms)
    IN  report_document(gs, algorithms, stats_l, h2h_l,
                        sorted_by_score_percent(algorithms, stats_l))

\* ------------------------------------------------------------------ parse_pgn

\* Longest block sequence drawn from PlainBlocks.
MaxBlocks == 3

\* A tag of a block: Absent when the block has no line of that tag, <<v>>
\* when it has the line [Tag "v"]. A block has at most one line per tag.
Absent == <<>>

TagValues(S) == {Absent} \cup {<<v>> : v \in S}

\* The text of a PlyCount tag, as its characters.
PlyTexts == {<<>>, <<"4", "0">>, <<"4", "x">>}

Digits == <<"0", "1", "2", "3", "4", "5", "6", "7", "8", "9">>

IsDigit(c) == \E k \in DOMAIN Digits : Digits[k] = c

DigitValue(c) == (CHOOSE k \in DOMAIN Digits : Digits[k] = c) - 1

RECURSIVE int_of(_)
\* int(text) of a digit string (line 154).
int_of(text) ==
    IF text = <<>> THEN 0
    ELSE 10 * int_of(SubSeq(text, 1, Len(text) - 1)) + DigitValue(text[Len(text)])

\* A block without tag lines.
NoTags ==
    [White |-> Absent, Black |-> Absent, Result |-> Absent, PlyCount |-> Absent,
     Termination |-> Absent, TimeControl |-> Absent, FEN |-> Absent]

\* A block of whitespace only.
BlankBlock == [blank |-> TRUE] @@ NoTags

\* Single blocks that vary the three required tags: absent, empty, present.
ReqBlocks ==
    [blank : {FALSE},
     White : TagValues({"", "A", "B"}), Black : TagValues({"", "A", "B"}),
     Result : TagValues({"", "1-0", "1/2-1/2"}),
     PlyCount : {Absent}, Termination : {Absent}, TimeControl : {Absent},
     FEN : {Absent}]

\* Single blocks that vary the optional tags of a well-formed block.
OptBlocks ==
    [blank : {FALSE},
     White : {<<"A">>}, Black : {<<"B">>}, Result : {<<"0-1">>},
     PlyCount : TagValues(PlyTexts),
     Termination : TagValues({"", "normal"}),
     TimeControl : TagValues({"60+1"}),
     FEN : TagValues({"8/8/8/8/8/8/8/K6k w - - 0 1"})]

\* The block of a game without optional tags.
GameBlock(w, b, r) ==
    [NoTags EXCEPT !.White = <<w>>, !.Black = <<b>>, !.Result = <<r>>]
        @@ [blank |-> FALSE]

\* Blocks of longer files: the games of the competitors, a blank block and a
\* block that lacks its Result tag.
PlainBlocks ==
    {GameBlock(w, b, r) : w \in Competitors, b \in Competitors,
                          r \in {"1-0", "1/2-1/2"}}
        \cup {BlankBlock}
        \cup {[NoTags EXCEPT !.White = <<"A">>, !.Black = <<"B">>]
                  @@ [blank |-> FALSE]}

\* The block sequences of an input file.
Contents ==
    {<<b>> : b \in ReqBlocks \cup OptBlocks} \cup SeqsUpTo(PlainBlocks, MaxBlocks)

\* A match of the pattern [^"]* in the place of [^"]+ (mutant of tag_match).
tag_match_any(t) == t # Absent

\* re.search(r'\[Tag "([^"]+)"\]', block): a line of the tag with at least
\* one character between the quotes.
tag_match(t) == t # Absent /\ t[1] # ""

\* re.search(r'\[PlyCount "(\d+)"\]', block): one digit or more.
ply_match(t) ==
    /\ t # Absent
    /\ t[1] # <<>>
    /\ \A k \in DOMAIN t[1] : IsDigit(t[1][k])

\* Line 148: white_match and black_match and result_match.
block_accepted(block) ==
    tag_match(block.White) /\ tag_match(block.Black) /\ tag_match(block.Result)

\* Lines 149-157: the record of an accepted block.
block_record(block) ==
    [white |-> block.White[1],
     black |-> block.Black[1],
     result |-> block.Result[1],
     termination |-> IF tag_match(block.Termination) THEN block.Termination[1] ELSE "",
     ply_count |-> IF ply_match(block.PlyCount) THEN int_of(block.PlyCount[1]) ELSE 0,
     time_control |-> IF tag_match(block.TimeControl) THEN block.TimeControl[1] ELSE "",
     opening_fen |-> IF tag_match(block.FEN) THEN block.FEN[1] ELSE ""]

\* One iteration with the record put in front (mutant of parse_step).
parse_step_prepend(gs, block) ==
    IF block.blank \/ ~block_accepted(block) THEN gs
    ELSE <<block_record(block)>> \o gs

\* One iteration of the loop over the blocks (lines 138-157): a blank block
\* and a block that fails the test leave the list alone.
parse_step(gs, block) ==
    IF block.blank \/ ~block_accepted(block) THEN gs
    ELSE Append(gs, block_record(block))

RECURSIVE parse_pgn(_)
parse_pgn(blocks) ==
    IF blocks = <<>> THEN <<>>
    ELSE parse_step(parse_pgn(SubSeq(blocks, 1, Len(blocks) - 1)),
                    blocks[Len(blocks)])

\* ------------------------------------------------------------------- state

VARIABLES
    pc,       \* where the run is: "parsed", "players", "stats", "done",
              \* "exit" (sys.exit(1)) or "crashed" (uncaught exception)
    games,    \* the parsed record sequence (main: games)
    players,  \* the participant list handed to the aggregation
    stats,    \* the result of calculate_overall_stats (main: stats)
    report,   \* the document generate_summary_report wrote, or NoReport
    has_arg,     \* len(sys.argv) >= 2
    pgn_exists,  \* pgn_path.exists()
    content,     \* the blocks of the input file, as re.split yields them
    out_dir,     \* output directory: "absent", "present" or "created"
    files,       \* names of the files written into the output directory
    exit_code,   \* -1 while running, then the exit status of the process
    diag,        \* the diagnostic of a fatal condition, "" if none
    charts,      \* number of plot calls of main that returned
    local,       \* the locals of generate_summary_report while it runs
    folders,     \* the time-limit folders of the results directory
    df,          \* the tabular dataset of visualize_results.py
    outcome      \* what each comparison called on the dataset returned or raised

\* The state of the aggregations and of the report.
aggVars == <<pc, games, players, stats, report>>

\* The process state of a run of main.
runVars == <<has_arg, pgn_exists, content, out_dir, files, exit_code, diag,
             charts, local>>

\* The state of the tabular aggregations.
tabVars == <<folders, df, outcome>>

vars == <<aggVars, runVars, tabVars>>

NoReport == [total_games |-> -1]

NoStats == <<>>

NoLocal == <<>>

NoData == [columns |-> {}, rows |-> <<>>]

\* No comparison was called.
NoOutcome == <<>>

\* No results directory is read.
NoFolders == <<>>

\* The report file (line 734), as <<stem, suffix>>.
SummaryFile == <<"tournament_summary", "txt">>

\* The tabular dataset is not loaded by the tournament script.
TabIdle ==
    /\ folders = NoFolders
    /\ df = NoData
    /\ outcome = NoOutcome

\* The state after games = parse_pgn(pgn_path) (line 760): any record
\* sequence within the bounds.
Tournaments ==
    SeqsUpTo(GameResult, MaxGames) \cup SeqsUpTo(PlainGame, MaxPlainGames)

Init ==
    /\ pc = "parsed"
    /\ games \in Tournaments
    /\ players = <<>>
    /\ stats = NoStats
    /\ report = NoReport
    /\ has_arg = TRUE
    /\ pgn_exists = TRUE
    /\ content = <<>>
    /\ out_dir = "present"
    /\ files = {}
    /\ exit_code = -1
    /\ diag = ""
    /\ charts = 0
    /\ local = NoLocal
    /\ TabIdle

\* The empty-input exit with status 0 (mutant of MainEmptyInput).
MainEmptyInputStatusZero ==
    /\ pc = "parsed"
    /\ games = <<>>
    /\ pc' = "exit"
    /\ exit_code' = 0
    /\ diag' = "no_games"
    /\ UNCHANGED <<games, players, stats, report>>
    /\ UNCHANGED <<has_arg, pgn_exists, content, out_dir, files, charts, local>>
    /\ UNCHANGED tabVars

\* Lines 763-765: no record was parsed.
MainEmptyInput ==
    /\ pc = "parsed"
    /\ games = <<>>
    /\ pc' = "exit"
    /\ exit_code' = 1
    /\ diag' = "no_games"
    /\ UNCHANGED <<games, players, stats, report>>
    /\ UNCHANGED <<has_arg, pgn_exists, content, out_dir, files, charts, local>>
    /\ UNCHANGED tabVars

\* Line 767: the participant list of a run.
MainGetAllPlayers ==
    /\ pc = "parsed"
    /\ games # <<>>
    /\ \E order \in set_orders(player_set(games)) : players' = sorted_names(order)
    /\ pc' = "players"
    /\ UNCHANGED <<games, stats, report>>
    /\ UNCHANGED <<runVars, tabVars>>

\* The aggregation functions take the participant list as an argument: a
\* caller other than main hands them any list.
CallerPlayers ==
    /\ pc = "parsed"
    /\ \E l \in DistinctLists(Names) : players' = l
    /\ pc' = "players"
    /\ UNCHANGED <<games, stats, report>>
    /\ UNCHANGED <<runVars, tabVars>>

\* An aggregation that empties the list it was given (mutant of
\* CalculateOverallStats).
CalculateOverallStatsConsuming ==
    /\ pc = "players"
    /\ stats' = calculate_overall_stats(games, players)
    /\ games' = <<>>
    /\ pc' = "stats"
    /\ UNCHANGED <<players, report>>
    /\ UNCHANGED <<runVars, tabVars>>

\* Line 772.
CalculateOverallStats ==
    /\ pc = "players"
    /\ stats' = calculate_overall_stats(games, players)
    /\ pc' = "stats"
    /\ UNCHANGED <<games, players, report>>
    /\ UNCHANGED <<runVars, tabVars>>

\* Line 808, generate_summary_report with a non-empty list: the document is
\* built and written.
GenerateSummaryReport ==
    /\ pc = "stats"
    /\ players # <<>>
    /\ report' = summary_report(games, players)
    /\ files' = files \cup {SummaryFile}
    /\ pc' = "done"
    /\ UNCHANGED <<games, players, stats>>
    /\ UNCHANGED <<has_arg, pgn_exists, content, out_dir, exit_code, diag,
                   charts, local>>
    /\ UNCHANGED tabVars

\* generate_summary_report with an empty list: sorted_algos[0] (line 705)
\* raises IndexError before the file is opened.
GenerateSummaryReportEmpty ==
    /\ pc = "stats"
    /\ players = <<>>
    /\ pc' = "crashed"
    /\ exit_code' = 1
    /\ diag' = "IndexError"
    /\ UNCHANGED <<games, players, stats, report>>
    /\ UNCHANGED <<has_arg, pgn_exists, content, out_dir, files, charts, local>>
    /\ UNCHANGED tabVars

Next ==
    \/ MainEmptyInput
    \/ MainGetAllPlayers
    \/ CallerPlayers
    \/ CalculateOverallStats
    \/ GenerateSummaryReport
    \/ GenerateSummaryReportEmpty

Spec == Init /\ [][Next]_vars

\* --------------------------------------------------------------- run of main

\* The plot calls of main in their order (lines 777-804).
PlotCalls ==
    <<"algorithm_comparison", "score_percentage", "head_to_head_heatmap",
      "stacked_results", "wdl_pie_charts", "tournament_crosstable",
      "algorithm_ranking", "game_length", "performance_radar",
      "head_to_head_detailed">>

\* plot_win_draw_loss_pie with one participant: plt.subplots(1, 3) returns an
\* array of three axes, [axes] wraps the array itself (line 395), and
\* ax.pie / ax.set_title on the array raise AttributeError (lines 403-413).
\* The other plot functions return for every participant list of a run.
plot_raises(name, stats_l) ==
    name = "wdl_pie_charts" /\ Cardinality(DOMAIN stats_l) = 1

\* The files a plot call saves: a PNG and a PDF, except that
\* plot_game_length_comparison returns early when no participant has an
\* average game length (lines 536-538).
plot_files(name, stats_l) ==
    IF /\ name = "game_length"
       /\ \A a \in DOMAIN stats_l : ~RatLess(Rat(0, 1), avg_game_length(stats_l[a]))
    THEN {}
    ELSE {<<name, "png">>, <<name, "pdf">>}

\* A run of the script: with or without its argument, the path existing or
\* not, the output directory there or not, and any block sequence in the file.
InitMain ==
    /\ pc = "main"
    /\ games = <<>>
    /\ players = <<>>
    /\ stats = NoStats
    /\ report = NoReport
    /\ has_arg \in BOOLEAN
    /\ pgn_exists \in (IF has_arg THEN BOOLEAN ELSE {FALSE})
    /\ content \in (IF pgn_exists THEN Contents ELSE {<<>>})
    /\ out_dir \in {"absent", "present"}
    /\ files = {}
    /\ exit_code = -1
    /\ diag = ""
    /\ charts = 0
    /\ local = NoLocal
    /\ TabIdle

\* Lines 745-748: no argument.
MainUsage ==
    /\ pc = "main"
    /\ ~has_arg
    /\ pc' = "exit"
    /\ exit_code' = 1
    /\ diag' = "usage"
    /\ UNCHANGED <<games, players, stats, report>>
    /\ UNCHANGED <<has_arg, pgn_exists, content, out_dir, files, charts, local>>
    /\ UNCHANGED tabVars

\* Lines 753-755: the path does not exist.
MainInputNotFound ==
    /\ pc = "main"
    /\ has_arg
    /\ ~pgn_exists
    /\ pc' = "exit"
    /\ exit_code' = 1
    /\ diag' = "not_found"
    /\ UNCHANGED <<games, players, stats, report>>
    /\ UNCHANGED <<has_arg, pgn_exists, content, out_dir, files, charts, local>>
    /\ UNCHANGED tabVars

\* mkdir ahead of the existence test (mutant of MainMkdir).
MainMkdirUntested ==
    /\ pc = "main"
    /\ has_arg
    /\ out_dir' = IF out_dir = "absent" THEN "created" ELSE out_dir
    /\ pc' = "dir"
    /\ UNCHANGED <<games, players, stats, report>>
    /\ UNCHANGED <<has_arg, pgn_exists, content, files, exit_code, diag, charts,
                   local>>
    /\ UNCHANGED tabVars

\* Line 757: output_dir.mkdir(parents=True, exist_ok=True).
MainMkdir ==
    /\ pc = "main"
    /\ has_arg
    /\ pgn_exists
    /\ out_dir' = IF out_dir = "absent" THEN "created" ELSE out_dir
    /\ pc' = "dir"
    /\ UNCHANGED <<games, players, stats, report>>
    /\ UNCHANGED <<has_arg, pgn_exists, content, files, exit_code, diag, charts,
                   local>>
    /\ UNCHANGED tabVars

\* A parse that hands over the records of the first block only, before the
\* rest is read (mutant of MainParse).
MainParseFirstBlock ==
    /\ pc = "dir"
    /\ games' = parse_pgn(IF content = <<>> THEN <<>> ELSE <<content[1]>>)
    /\ pc' = "parsed"
    /\ UNCHANGED <<players, stats, report>>
    /\ UNCHANGED <<runVars, tabVars>>

\* Line 760: games = parse_pgn(pgn_path).
MainParse ==
    /\ pc = "dir"
    /\ games' = parse_pgn(content)
    /\ pc' = "parsed"
    /\ UNCHANGED <<players, stats, report>>
    /\ UNCHANGED <<runVars, tabVars>>

\* Lines 777-804: the next plot call returns.
MainPlot ==
    /\ pc = "stats"
    /\ charts < Len(PlotCalls)
    /\ ~plot_raises(PlotCalls[charts + 1], stats)
    /\ files' = files \cup plot_files(PlotCalls[charts + 1], stats)
    /\ charts' = charts + 1
    /\ UNCHANGED aggVars
    /\ UNCHANGED <<has_arg, pgn_exists, content, out_dir, exit_code, diag, local>>
    /\ UNCHANGED tabVars

\* Lines 777-804: the next plot call raises; main catches nothing.
MainPlotRaises ==
    /\ pc = "stats"
    /\ charts < Len(PlotCalls)
    /\ plot_raises(PlotCalls[charts + 1], stats)
    /\ pc' = "crashed"
    /\ exit_code' = 1
    /\ diag' = "AttributeError"
    /\ UNCHANGED <<games, players, stats, report>>
    /\ UNCHANGED <<has_arg, pgn_exists, content, out_dir, files, charts, local>>
    /\ UNCHANGED tabVars

\* Lines 654-655 of generate_summary_report (called at line 808).
ReportAggregate ==
    /\ pc = "stats"
    /\ charts = Len(PlotCalls)
    /\ local' = [stats |-> calculate_overall_stats(games, players),
                 h2h |-> calculate_head_to_head(games, players)]
    /\ pc' = "report_aggregated"
    /\ UNCHANGED <<games, players, stats, report>>
    /\ UNCHANGED <<has_arg, pgn_exists, content, out_dir, files, exit_code, diag,
                   charts>>
    /\ UNCHANGED tabVars

\* Line 672: sorted_algos.
ReportRank ==
    /\ pc = "report_aggregated"
    /\ local' = [stats |-> local.stats, h2h |-> local.h2h,
                 sorted_algos |-> sorted_by_score_percent(players, local.stats)]
    /\ pc' = "report_ranked"
    /\ UNCHANGED <<games, players, stats, report>>
    /\ UNCHANGED <<has_arg, pgn_exists, content, out_dir, files, exit_code, diag,
                   charts>>
    /\ UNCHANGED tabVars

\* Lines 657-735: the lines are built from the locals and written.
ReportWrite ==
    /\ pc = "report_ranked"
    /\ report' = report_document(games, players, local.stats, local.h2h,
                                 local.sorted_algos)
    /\ files' = files \cup {SummaryFile}
    /\ pc' = "report_written"
    /\ UNCHANGED <<games, players, stats>>
    /\ UNCHANGED <<has_arg, pgn_exists, content, out_dir, exit_code, diag,
                   charts, local>>
    /\ UNCHANGED tabVars

\* Lines 810-811: main returns and the process exits with status 0.
MainFinish ==
    /\ pc = "report_written"
    /\ pc' = "done"
    /\ exit_code' = 0
    /\ local' = NoLocal
    /\ UNCHANGED <<games, players, stats, report>>
    /\ UNCHANGED <<has_arg, pgn_exists, content, out_dir, files, diag, charts>>
    /\ UNCHANGED tabVars

NextMain ==
    \/ MainUsage
    \/ MainInputNotFound
    \/ MainMkdir
    \/ MainParse
    \/ MainEmptyInput
    \/ MainGetAllPlayers
    \/ CalculateOverallStats
    \/ MainPlot
    \/ MainPlotRaises
    \/ ReportAggregate
    \/ ReportRank
    \/ ReportWrite
    \/ MainFinish

SpecMain == InitMain /\ [][NextMain]_vars

\* ------------------------------------------------- visualize_results.py

\* Longest row sequence of a tabular dataset.
MaxRows == 2

\* The columns the two comparisons read.
Columns == {"algorithm", "depth", "nps"}

\* The values of a column: two algorithms, two depths, two node rates.
ColumnValues(c) ==
    IF c = "algorithm" THEN {"A", "B"}
    ELSE IF c = "depth" THEN {4, 7}
    ELSE {100, 300}

RECURSIVE RowsOver(_)
\* The rows over the columns C: one value of every column.
RowsOver(C) ==
    IF C = {} THEN {<<>>}
    ELSE LET c == CHOOSE x \in C : TRUE
         IN  {r @@ (c :> v) : r \in RowsOver(C \ {c}), v \in ColumnValues(c)}

\* A dataset as pd.read_csv returns it: the columns of the header line and
\* one value of every column in each row; a file of a header line alone gives
\* a dataset without rows.
Datasets ==
    UNION {[columns : {C}, rows : SeqsUpTo(RowsOver(C), MaxRows)] :
               C \in SUBSET Columns}

KeyError(c) == [kind |-> "KeyError", column |-> c]

\* max() of an empty Series.
EmptyMax == [kind |-> "ValueError"]

RECURSIVE column_sum(_, _)
column_sum(rows, c) ==
    IF rows = <<>> THEN 0
    ELSE column_sum(SubSeq(rows, 1, Len(rows) - 1), c) + rows[Len(rows)][c]

\* df.groupby('algorithm')[c].mean(): KeyError for a missing key column, then
\* for a missing value column; else the mean of c over the rows of every
\* algorithm of the dataset.
groupby_mean(d, c) ==
    IF "algorithm" \notin d.columns THEN KeyError("algorithm")
    ELSE IF c \notin d.columns THEN KeyError(c)
    ELSE LET of(a) == SelectSeq(d.rows, LAMBDA r : r["algorithm"] = a)
         IN  [kind |-> "ok",
              mean |-> [a \in {d.rows[k]["algorithm"] : k \in DOMAIN d.rows} |->
                           Rat(column_sum(of(a), c), Len(of(a)))]]

\* The rest of a comparison plot: max(avg) of the axis limit raises on a
\* Series without entries (lines 144 and 167).
comparison_chart(avg) ==
    IF avg.kind = "ok" /\ DOMAIN avg.mean = {} THEN EmptyMax ELSE avg

\* A comparison that shows zero for every algorithm when the column is
\* missing (mutant of plot_nps_comparison).
plot_nps_comparison_zeros(d) ==
    IF "nps" \in d.columns \/ "algorithm" \notin d.columns
    THEN comparison_chart(groupby_mean(d, "nps"))
    ELSE [kind |-> "ok",
          mean |-> [a \in {d.rows[k]["algorithm"] : k \in DOMAIN d.rows} |->
                       Rat(0, 1)]]

\* Lines 127-148.
plot_nps_comparison(d) == comparison_chart(groupby_mean(d, "nps"))

\* Lines 151-171.
plot_depth_comparison(d) == comparison_chart(groupby_mean(d, "depth"))

\* A loaded dataset, before any comparison; the two comparisons are then
\* called on it, each once, in either order.
InitTab ==
    /\ pc = "tab"
    /\ folders = NoFolders
    /\ df \in Datasets
    /\ outcome = NoOutcome
    /\ games = <<>>
    /\ players = <<>>
    /\ stats = NoStats
    /\ report = NoReport
    /\ has_arg = TRUE
    /\ pgn_exists = TRUE
    /\ content = <<>>
    /\ out_dir = "present"
    /\ files = {}
    /\ exit_code = -1
    /\ diag = ""
    /\ charts = 0
    /\ local = NoLocal

\* A call plot_nps_comparison(df, output_dir) on the dataset.
PlotNpsComparison ==
    /\ pc = "tab"
    /\ "nps_comparison" \notin DOMAIN outcome
    /\ outcome' = outcome @@ ("nps_comparison" :> plot_nps_comparison(df))
    /\ UNCHANGED <<folders, df, aggVars, runVars>>

\* A call plot_depth_comparison(df, output_dir) on the dataset.
PlotDepthComparison ==
    /\ pc = "tab"
    /\ "depth_comparison" \notin DOMAIN outcome
    /\ outcome' = outcome @@ ("depth_comparison" :> plot_depth_comparison(df))
    /\ UNCHANGED <<folders, df, aggVars, runVars>>

NextTab ==
    \/ PlotNpsComparison
    \/ PlotDepthComparison

SpecTab == InitTab /\ [][NextTab]_vars

\* ------------------------------------------- run of visualize_results.py main

\* The columns main and the functions it calls read.
RunColumns ==
    {"algorithm", "phase", "position_id", "depth", "nodes", "nps", "ttfm_ms",
     "branching_factor", "time_limit"}

\* The values of a column in the datasets of a run: two algorithms, two
\* phases, two time limits, and one measurement for every other column.
RunColumnValues(c) ==
    IF c = "algorithm" THEN {"A", "B"}
    ELSE IF c = "phase" THEN {"opening", "endgame"}
    ELSE IF c = "time_limit" THEN {500, 2000}
    ELSE {4}

RECURSIVE RunRowsOver(_)
RunRowsOver(C) ==
    IF C = {} THEN {<<>>}
    ELSE LET c == CHOOSE x \in C : TRUE
         IN  {r @@ (c :> v) : r \in RunRowsOver(C \ {c}), v \in RunColumnValues(c)}

\* The datasets main may have loaded: any header, up to MaxRows rows.
RunDatasets ==
    UNION {[columns : {C}, rows : SeqsUpTo(RunRowsOver(C), MaxRows)] :
               C \in SUBSET RunColumns}

\* The calls of main after the dataset is loaded, in their order (lines
\* 710-749): thirteen charts, then generate_summary.
TabCalls ==
    <<"nps_comparison", "depth_comparison", "ttfm_comparison",
      "nodes_comparison", "phase_comparison", "phase_heatmap_nps",
      "phase_heatmap_depth", "time_limit_comparison", "depth_vs_time",
      "boxplots", "violin_plots", "radar_chart", "summary_ranking",
      "benchmark_summary">>

\* df[c].unique()
unique(d, c) == {d.rows[k][c] : k \in DOMAIN d.rows}

\* The function goes past its early return: more than one value in column c
\* (lines 223, 265, 314, 355).
several(d, c) == c \in d.columns /\ Cardinality(unique(d, c)) > 1

\* The columns a call reads, in the order it reads them, as far as the
\* dataset lets it go. The functions for the time limits return before any
\* read when the dataset has no time_limit column (lines 310, 351).
step_reads(name, d) ==
    IF name = "nps_comparison" THEN <<"algorithm", "nps">>
    ELSE IF name = "depth_comparison" THEN <<"algorithm", "depth">>
    ELSE IF name = "ttfm_comparison" THEN <<"algorithm", "ttfm_ms">>
    ELSE IF name = "nodes_comparison" THEN <<"algorithm", "nodes">>
    ELSE IF name = "phase_comparison" THEN
        <<"phase">> \o (IF several(d, "phase")
                        THEN <<"algorithm", "nps", "depth", "ttfm_ms">> ELSE <<>>)
    ELSE IF name = "phase_heatmap_nps" THEN
        <<"phase">> \o (IF several(d, "phase") THEN <<"algorithm", "nps">> ELSE <<>>)
    ELSE IF name = "phase_heatmap_depth" THEN
        <<"phase">> \o (IF several(d, "phase") THEN <<"algorithm", "depth">> ELSE <<>>)
    ELSE IF name = "time_limit_comparison" THEN
        IF several(d, "time_limit")
        THEN <<"time_limit", "algorithm", "nps", "depth", "nodes", "ttfm_ms">>
        ELSE <<>>
    ELSE IF name = "depth_vs_time" THEN
        IF several(d, "time_limit") THEN <<"time_limit", "algorithm", "depth">>
        ELSE <<>>
    ELSE IF name = "boxplots" THEN
        <<"algorithm", "nps", "depth", "nodes", "ttfm_ms">>
    ELSE IF name = "violin_plots" THEN
        <<"algorithm", "nps", "depth", "ttfm_ms", "branching_factor">>
    ELSE IF name = "radar_chart" THEN
        <<"algorithm", "nps", "depth", "nodes", "ttfm_ms", "branching_factor">>
    ELSE IF name = "summary_ranking" THEN
        <<"algorithm", "nps", "depth", "ttfm_ms">>
    ELSE <<"algorithm", "phase", "position_id", "nps", "depth", "nodes", "ttfm_ms">>

\* What a call returns or raises: KeyError for the first column it reads that
\* the dataset lacks. The two comparisons of the first lines compute their
\* means and raise on a dataset without rows.
step_result(name, d) ==
    IF name = "nps_comparison" THEN plot_nps_comparison(d)
    ELSE IF name = "depth_comparison" THEN plot_depth_comparison(d)
    ELSE LET reads   == step_reads(name, d)
             missing == {k \in DOMAIN reads : reads[k] \notin d.columns}
         IN  IF missing = {} THEN [kind |-> "ok"]
             ELSE KeyError(reads[CHOOSE k \in missing : \A j \in missing : k <= j])

\* The files a call that returned has saved: none when it returned early.
step_files(name, d) ==
    IF name = "benchmark_summary" THEN {<<name, "txt">>}
    ELSE IF /\ name \in {"phase_comparison", "phase_heatmap_nps",
                         "phase_heatmap_depth"}
            /\ ~several(d, "phase") THEN {}
    ELSE IF /\ name \in {"time_limit_comparison", "depth_vs_time"}
            /\ ~several(d, "time_limit") THEN {}
    ELSE {<<name, "png">>, <<name, "pdf">>}

\* main after the dataset is loaded and the output directory made (line 697).
InitTabMain ==
    /\ pc = "tab_main"
    /\ folders = NoFolders
    /\ df \in RunDatasets
    /\ outcome = NoOutcome
    /\ games = <<>>
    /\ players = <<>>
    /\ stats = NoStats
    /\ report = NoReport
    /\ has_arg = TRUE
    /\ pgn_exists = TRUE
    /\ content = <<>>
    /\ out_dir = "present"
    /\ files = {}
    /\ exit_code = -1
    /\ diag = ""
    /\ charts = 0
    /\ local = NoLocal

\* Lines 699-705: the header lines of main read algorithm and phase.
TabMainHeader ==
    /\ pc = "tab_main"
    /\ {"algorithm", "phase"} \subseteq df.columns
    /\ pc' = "tab_calls"
    /\ UNCHANGED <<games, players, stats, report, runVars, tabVars>>

\* Lines 701-702 on a dataset without one of the two columns: KeyError.
TabMainHeaderRaises ==
    /\ pc = "tab_main"
    /\ ~({"algorithm", "phase"} \subseteq df.columns)
    /\ pc' = "crashed"
    /\ exit_code' = 1
    /\ diag' = "KeyError"
    /\ UNCHANGED <<games, players, stats, report>>
    /\ UNCHANGED <<has_arg, pgn_exists, content, out_dir, files, charts, local>>
    /\ UNCHANGED tabVars

\* Lines 710-749: the next call returns.
TabMainCall ==
    /\ pc = "tab_calls"
    /\ charts < Len(TabCalls)
    /\ LET name == TabCalls[charts + 1]
       IN  /\ step_result(name, df).kind = "ok"
           /\ outcome' = outcome @@ (name :> step_result(name, df))
           /\ files' = files \cup step_files(name, df)
    /\ charts' = charts + 1
    /\ UNCHANGED <<folders, df, aggVars>>
    /\ UNCHANGED <<has_arg, pgn_exists, content, out_dir, exit_code, diag, local>>

\* Lines 710-749: the next call raises; main catches nothing.
TabMainCallRaises ==
    /\ pc = "tab_calls"
    /\ charts < Len(TabCalls)
    /\ LET name == TabCalls[charts + 1]
       IN  /\ step_result(name, df).kind # "ok"
           /\ outcome' = outcome @@ (name :> step_result(name, df))
           /\ diag' = step_result(name, df).kind
    /\ pc' = "crashed"
    /\ exit_code' = 1
    /\ UNCHANGED <<folders, df, games, players, stats, report>>
    /\ UNCHANGED <<has_arg, pgn_exists, content, out_dir, files, charts, local>>

\* Lines 751-754: main returns.
TabMainFinish ==
    /\ pc = "tab_calls"
    /\ charts = Len(TabCalls)
    /\ pc' = "done"
    /\ exit_code' = 0
    /\ UNCHANGED <<games, players, stats, report>>
    /\ UNCHANGED <<has_arg, pgn_exists, content, out_dir, files, diag, charts, local>>
    /\ UNCHANGED tabVars

NextTabMain ==
    \/ TabMainHeader
    \/ TabMainHeaderRaises
    \/ TabMainCall
    \/ TabMainCallRaises
    \/ TabMainFinish

SpecTabMain == InitTabMain /\ [][NextTabMain]_vars

\* ------------------------------------------------------------ load_all_results

\* Longest row sequence of a source file.
MaxSourceRows == 1

\* The time limits of the folders 500ms, 2000ms, 5000ms, in the order of the
\* loop (line 97).
TimeFolders == <<500, 2000, 5000>>

\* The comparison files of a folder: files of one column, and one file that
\* has a time_limit column of its own.
Sources ==
    [columns : {{"algorithm"}},
     rows : SeqsUpTo([algorithm : {"A", "B"}], MaxSourceRows)]
        \cup {[columns |-> {"algorithm", "time_limit"},
               rows |-> <<[algorithm |-> "A", time_limit |-> 9]>>]}

\* A folder: missing, or there with up to two files matching comparison_*.csv.
FolderStates ==
    {[exists |-> FALSE, csv |-> {}]}
        \cup {[exists |-> TRUE, csv |-> F] :
                  F \in {G \in SUBSET Sources : Cardinality(G) <= 2}}

\* df['time_limit'] = time_limit kept out (mutant of tag_time_limit).
tag_nothing(d, t) == d

\* Line 108: df['time_limit'] = time_limit sets the column in every row,
\* replacing a column of that name.
tag_time_limit(d, t) ==
    [columns |-> d.columns \cup {"time_limit"},
     rows |-> [k \in DOMAIN d.rows |->
                  [c \in d.columns \cup {"time_limit"} |->
                      IF c = "time_limit" THEN t ELSE d.rows[k][c]]]]

\* The files csv_files[0] may be: glob yields the matching files in no
\* particular order.
first_csv(folder) ==
    IF folder.exists /\ folder.csv # {} THEN folder.csv ELSE {NoData}

RECURSIVE all_data(_, _, _)
\* all_data after the first n folders (lines 96-109), csv[k] being
\* csv_files[0] of folder k.
all_data(fs, csv, n) ==
    IF n = 0 THEN <<>>
    ELSE IF fs[n].exists /\ fs[n].csv # {}
         THEN Append(all_data(fs, csv, n - 1), tag_time_limit(csv[n], TimeFolders[n]))
         ELSE all_data(fs, csv, n - 1)

RECURSIVE concat(_)
\* pd.concat(all_data, ignore_index=True) of frames of one header.
concat(frames) ==
    IF Len(frames) = 1 THEN frames[1]
    ELSE LET init == concat(SubSeq(frames, 1, Len(frames) - 1))
             last == frames[Len(frames)]
         IN  [columns |-> init.columns \cup last.columns,
              rows |-> init.rows \o last.rows]

\* A results directory with its three folders in any state.
InitLoad ==
    /\ pc = "load"
    /\ folders \in [1..Len(TimeFolders) -> FolderStates]
    /\ df = NoData
    /\ outcome = NoOutcome
    /\ games = <<>>
    /\ players = <<>>
    /\ stats = NoStats
    /\ report = NoReport
    /\ has_arg = TRUE
    /\ pgn_exists = TRUE
    /\ content = <<>>
    /\ out_dir = "absent"
    /\ files = {}
    /\ exit_code = -1
    /\ diag = ""
    /\ charts = 0
    /\ local = NoLocal

\* load_all_results returns the combined dataset (lines 93-115).
LoadAllResults ==
    /\ pc = "load"
    /\ \E c1 \in first_csv(folders[1]), c2 \in first_csv(folders[2]),
          c3 \in first_csv(folders[3]) :
          LET data == all_data(folders, <<c1, c2, c3>>, Len(folders))
          IN  /\ data # <<>>
              /\ local' = [csv |-> <<c1, c2, c3>>]
              /\ df' = concat(data)
    /\ pc' = "loaded"
    /\ UNCHANGED <<folders, outcome, games, players, stats, report>>
    /\ UNCHANGED <<has_arg, pgn_exists, content, out_dir, files, exit_code, diag,
                   charts>>

\* load_all_results raises ValueError (lines 111-112); main catches nothing.
LoadAllResultsRaises ==
    /\ pc = "load"
    /\ all_data(folders, <<NoData, NoData, NoData>>, Len(folders)) = <<>>
    /\ pc' = "crashed"
    /\ exit_code' = 1
    /\ diag' = "ValueError"
    /\ UNCHANGED <<games, players, stats, report>>
    /\ UNCHANGED <<has_arg, pgn_exists, content, out_dir, files, charts, local>>
    /\ UNCHANGED tabVars

NextLoad ==
    \/ LoadAllResults
    \/ LoadAllResultsRaises

SpecLoad == InitLoad /\ [][NextLoad]_vars

\* ------------------------------------------------------------------ claims

Front(s) == SubSeq(s, 1, Len(s) - 1)

Last(s) == s[Len(s)]

InList(p) == p \in Range(players)

\* How many sides of record g participant p is (2 for a record of p against
\* itself).
Sides(p, g) == (IF g.white = p THEN 1 ELSE 0) + (IF g.black = p THEN 1 ELSE 0)

Bit(b) == IF b THEN 1 ELSE 0

\* stats holds the aggregation of games over players.
Aggregated == pc \in {"stats", "done", "crashed"}

\* The report was built and written.
Reported == pc = "done"

\* B is on the line "A dominuje: ..." of the report.
ListedDominating(A, B) ==
    \E k \in DOMAIN report.dominance :
        /\ report.dominance[k].algo = A
        /\ B \in Range(report.dominance[k].dominated)

\* The head-to-head block has a line "vs B" under A.
ListedVersus(A, B) ==
    \E k \in DOMAIN report.head_to_head :
        /\ report.head_to_head[k].algo = A
        /\ B \in Range(report.head_to_head[k].vs)

\* Some record has A and B as its two sides.
Played(A, B) ==
    \E k \in DOMAIN games :
        \/ games[k].white = A /\ games[k].black = B
        \/ games[k].white = B /\ games[k].black = A

\* C1: in the matrix calculate_head_to_head returns, for every ordered pair
\* (A,B) of the participant list with A # B, the wins of A against B are the
\* losses of B against A and the draws of the two entries are equal.
C1_PairwiseSymmetry ==
    Reported =>
        \A A, B \in Range(players) :
            A # B =>
                /\ report.h2h[A][B].wins = report.h2h[B][A].losses
                /\ report.h2h[A][B].draws = report.h2h[B][A].draws

C1_Witness ==
    /\ Reported
    /\ \E A, B \in Range(players) :
        /\ A # B
        /\ report.h2h[A][B].wins > 0
        /\ report.h2h[A][B].draws > 0
        /\ report.h2h[A][B].losses = 0

\* C2: folding one more record into the overall stats credits, to every
\* participant of the list, one win per side it won ("1-0" for white, "0-1"
\* for black), one loss per side it lost, and one draw per side it holds for
\* every other result string; nothing else changes in wins, losses, draws.
C2_ResultDecoding ==
    (Aggregated /\ games # <<>>) =>
        LET g    == Last(games)
            prev == calculate_overall_stats(Front(games), players)
        IN  \A p \in Range(players) :
                /\ stats[p].wins - prev[p].wins =
                      Bit(g.white = p /\ g.result = "1-0")
                      + Bit(g.black = p /\ g.result = "0-1")
                /\ stats[p].losses - prev[p].losses =
                      Bit(g.white = p /\ g.result = "0-1")
                      + Bit(g.black = p /\ g.result = "1-0")
                /\ stats[p].draws - prev[p].draws =
                      IF g.result \in {"1-0", "0-1"} THEN 0 ELSE Sides(p, g)

C2_Witness ==
    /\ Aggregated
    /\ games # <<>>
    /\ Last(games).result = "*"
    /\ Last(games).white # Last(games).black
    /\ InList(Last(games).white) /\ InList(Last(games).black)
    /\ stats[Last(games).white].draws = 1
    /\ stats[Last(games).black].draws = 1

\* C3 (as claimed): for a record between two different participants of the
\* list, whatever its result string, folding it makes the total
\* wins+draws+losses of both matrix entries of the pair grow by one.
C3_BothEntriesGrow ==
    (Reported /\ games # <<>>) =>
        LET g    == Last(games)
            prev == calculate_head_to_head(Front(games), players)
        IN  (g.white # g.black /\ InList(g.white) /\ InList(g.black)) =>
                /\ h2h_total(report.h2h[g.white][g.black])
                      = h2h_total(prev[g.white][g.black]) + 1
                /\ h2h_total(report.h2h[g.black][g.white])
                      = h2h_total(prev[g.black][g.white]) + 1

\* C4 (as claimed): the self-pair entry of every participant stays at zero
\* after any record sequence, records of a participant against itself
\* included.
C4_SelfPairEmpty ==
    Reported =>
        \A A \in Range(players) :
            report.h2h[A][A] = [wins |-> 0, draws |-> 0, losses |-> 0]

\* C5: the report lists A as dominating B (A # B) exactly when the pairwise
\* total t of A against B is positive and 2*wins + draws > t; with t = 0
\* neither direction is listed, and a score of exactly half is not dominance.
C5_Dominance ==
    Reported =>
        \A A, B \in Range(players) :
            A # B =>
                LET r == report.h2h[A][B]
                    t == r.wins + r.draws + r.losses
                IN  /\ ListedDominating(A, B) <=> (t > 0 /\ 2 * r.wins + r.draws > t)
                    /\ t = 0 => ~ListedDominating(A, B) /\ ~ListedDominating(B, A)
                    /\ 2 * r.wins + r.draws = t => ~ListedDominating(A, B)

C5_Witness ==
    /\ Reported
    /\ ListedDominating("A", "B")
    /\ report.h2h["A"]["B"].losses > 0
    /\ InList("C")

\* A reachable report in which A scored exactly half against B: no dominance
\* line at all.
C5_WitnessHalf ==
    /\ Reported
    /\ InList("A") /\ InList("B")
    /\ report.h2h["A"]["B"].wins = 1
    /\ report.h2h["A"]["B"].losses = 1
    /\ report.dominance = <<>>

\* Position of participant p in the participant list (its enumeration order).
Index(p) == CHOOSE k \in DOMAIN players : players[k] = p

\* C6: the ranking of the report is a permutation of the participant list,
\* in descending score_percent, and participants of equal score_percent
\* stand in the order of the participant list.
C6_StableRanking ==
    Reported =>
        LET rk == report.ranking
            sp(k) == score_percent(report.stats[rk[k].algo])
        IN  /\ Len(rk) = Len(players)
            /\ {rk[k].algo : k \in DOMAIN rk} = Range(players)
            /\ \A j, k \in DOMAIN rk : j # k => rk[j].algo # rk[k].algo
            /\ \A k \in DOMAIN rk : RatEq(rk[k].score_percent, sp(k))
            /\ \A j, k \in DOMAIN rk :
                  j < k =>
                      /\ ~RatLess(sp(j), sp(k))
                      /\ RatEq(sp(j), sp(k)) => Index(rk[j].algo) < Index(rk[k].algo)

C6_Witness ==
    /\ Reported
    /\ players = <<"C", "B", "A">>
    /\ report.sorted_algos = <<"A", "C", "B">>
    /\ games_of(report.stats["B"]) > 0

\* C7: every participant's counters are non-negative, its score lies between
\* 0 and its number of games (0 <= 2*wins+draws <= 2*games), so score_percent
\* lies in [0,100]; score_percent and win_percent are 0 without games; the
\* games column of its ranking row is wins+draws+losses; a participant of the
\* list that is a side of no record has every counter at 0.
C7_StatsInvariant ==
    Aggregated =>
        \A p \in Range(players) :
            LET s == stats[p]
            IN  /\ s.wins >= 0 /\ s.losses >= 0 /\ s.draws >= 0
                /\ games_of(s) = s.wins + s.losses + s.draws
                /\ 0 <= 2 * s.wins + s.draws
                /\ 2 * s.wins + s.draws <= 2 * games_of(s)
                /\ ~RatLess(score_percent(s), Rat(0, 1))
                /\ ~RatLess(Rat(100, 1), score_percent(s))
                /\ games_of(s) = 0 =>
                      /\ RatEq(score_percent(s), Rat(0, 1))
                      /\ RatEq(win_percent(s), Rat(0, 1))
                /\ (\A k \in DOMAIN games : Sides(p, games[k]) = 0) =>
                      s = PlayerStats(p)
                /\ Reported =>
                      \A k \in DOMAIN report.ranking :
                          report.ranking[k].algo = p =>
                              report.ranking[k].games = s.wins + s.losses + s.draws

C7_Witness ==
    /\ Reported
    /\ InList("A") /\ InList("B") /\ InList("C")
    /\ stats["C"] = PlayerStats("C")
    /\ stats["A"].wins = 1 /\ stats["A"].draws = 1
    /\ RatEq(score_percent(stats["A"]), Rat(75, 1))
    /\ games_of(stats["B"]) = 2

\* C8: folding one more record adds, to every participant of the list and
\* per side it holds, the record's ply_count to total_plies and 1 to
\* games_with_plies when ply_count > 0, and nothing when ply_count = 0;
\* avg_game_length is total_plies / games_with_plies, and 0 when
\* games_with_plies = 0.
C8_PlyAccumulation ==
    (Aggregated /\ games # <<>>) =>
        LET g    == Last(games)
            prev == calculate_overall_stats(Front(games), players)
        IN  \A p \in Range(players) :
                /\ stats[p].total_plies - prev[p].total_plies =
                      IF g.ply_count > 0 THEN Sides(p, g) * g.ply_count ELSE 0
                /\ stats[p].games_with_plies - prev[p].games_with_plies =
                      IF g.ply_count > 0 THEN Sides(p, g) ELSE 0
                /\ IF stats[p].games_with_plies = 0
                   THEN RatEq(avg_game_length(stats[p]), Rat(0, 1))
                   ELSE avg_game_length(stats[p]).num
                            * stats[p].games_with_plies
                        = stats[p].total_plies * avg_game_length(stats[p]).den

C8_Witness ==
    /\ Aggregated
    /\ Len(games) = 2
    /\ games[1].ply_count = 0
    /\ games[2].ply_count > 0
    /\ games[1].white = "A" /\ games[2].white = "A" /\ games[2].black = "B"
    /\ InList("A") /\ InList("B")
    /\ games_of(stats["A"]) = 2
    /\ stats["A"].games_with_plies = 1
    /\ RatEq(avg_game_length(stats["A"]), Rat(40, 1))

\* The three records of the scenario.
ScenarioGames ==
    << [white |-> "A", black |-> "B", result |-> "1-0", ply_count |-> 0],
       [white |-> "B", black |-> "A", result |-> "0-1", ply_count |-> 0],
       [white |-> "A", black |-> "B", result |-> "1/2-1/2", ply_count |-> 0] >>

\* C9: for the records (A,B,"1-0"), (B,A,"0-1"), (A,B,"1/2-1/2") a run yields
\* A: wins 2, losses 0, draws 1, games 3, score 2.5; B: wins 0, losses 2,
\* draws 1, games 3, score 0.5; the entry of A against B is 2/1/0 and that of
\* B against A is 0/1/2 (wins/draws/losses); A dominates B and B does not
\* dominate A.
C9_Scenario ==
    (games = ScenarioGames /\ players = <<"A", "B">>) =>
        /\ Aggregated =>
              /\ stats["A"].wins = 2 /\ stats["A"].losses = 0 /\ stats["A"].draws = 1
              /\ games_of(stats["A"]) = 3
              /\ RatEq(score(stats["A"]), Rat(5, 2))
              /\ stats["B"].wins = 0 /\ stats["B"].losses = 2 /\ stats["B"].draws = 1
              /\ games_of(stats["B"]) = 3
              /\ RatEq(score(stats["B"]), Rat(1, 2))
        /\ Reported =>
              /\ report.stats = stats
              /\ report.h2h["A"]["B"] = [wins |-> 2, draws |-> 1, losses |-> 0]
              /\ report.h2h["B"]["A"] = [wins |-> 0, draws |-> 1, losses |-> 2]
              /\ ListedDominating("A", "B")
              /\ ~ListedDominating("B", "A")

C9_Witness ==
    /\ Reported
    /\ games = ScenarioGames
    /\ players = get_all_players(games)
    /\ players = <<"A", "B">>

\* C10 (as claimed): the head-to-head block has a line "vs B" under A, for
\* participants A # B, exactly when some record has A and B as its two
\* sides.
C10_LineIffPlayed ==
    Reported =>
        \A A, B \in Range(players) :
            A # B => (ListedVersus(A, B) <=> Played(A, B))

\* C11: the best and the worst participant of the conclusions are the first
\* and the last entry of the ranking: best has the maximum score_percent and
\* is the earliest of the participant list among those at the maximum; worst
\* has the minimum and is the latest of the list among those at the minimum;
\* with one participant they are the same.
C11_BestWorst ==
    Reported =>
        LET sp(p) == score_percent(report.stats[p])
            n     == Len(report.ranking)
            best  == report.best_algo
            worst == report.worst_algo
        IN  /\ best = report.ranking[1].algo
            /\ worst = report.ranking[n].algo
            /\ \A p \in Range(players) :
                  /\ ~RatLess(sp(best), sp(p))
                  /\ RatEq(sp(p), sp(best)) => Index(best) <= Index(p)
                  /\ ~RatLess(sp(p), sp(worst))
                  /\ RatEq(sp(p), sp(worst)) => Index(p) <= Index(worst)
            /\ Len(players) = 1 => best = worst

C11_Witness ==
    /\ Reported
    /\ players = <<"B", "A", "C">>
    /\ RatEq(score_percent(report.stats["A"]), score_percent(report.stats["B"]))
    /\ games_of(report.stats["A"]) > 0
    /\ report.best_algo = "B"
    /\ RatEq(score_percent(report.stats["C"]), Rat(0, 1))
    /\ report.worst_algo = "C"

\* main has parsed the input file.
Parsed == pc \notin {"main", "dir"} /\ diag \notin {"usage", "not_found"}

\* The block has a line of the tag with a non-empty quoted value.
Carries(t) == Len(t) = 1 /\ t[1] # ""

\* The text is not a string of digits.
NotDigitString(text) ==
    text = <<>> \/ \E k \in DOMAIN text : text[k] \notin Range(Digits)

\* C12: a block is accepted if and only if it carries a White, a Black and a
\* Result tag, each with a non-empty value; the record of an accepted block
\* has "" for an absent Termination, TimeControl and FEN tag and 0 for a
\* PlyCount tag that is absent or whose value is not a digit string.
C12_AcceptAndDefaults ==
    (Parsed /\ Len(content) = 1) =>
        LET b == content[1]
        IN  /\ (games # <<>>) <=>
                   (~b.blank /\ Carries(b.White) /\ Carries(b.Black)
                        /\ Carries(b.Result))
            /\ games # <<>> =>
                   /\ Len(games) = 1
                   /\ games[1].white = b.White[1]
                   /\ games[1].black = b.Black[1]
                   /\ games[1].result = b.Result[1]
                   /\ b.Termination = Absent => games[1].termination = ""
                   /\ b.TimeControl = Absent => games[1].time_control = ""
                   /\ b.FEN = Absent => games[1].opening_fen = ""
                   /\ (b.PlyCount = Absent \/ NotDigitString(b.PlyCount[1]))
                          => games[1].ply_count = 0

C12_Witness ==
    /\ Parsed
    /\ Len(content) = 1
    /\ content[1].PlyCount = <<(<<"4", "x">>)>>
    /\ content[1].Termination = Absent
    /\ content[1].TimeControl # Absent
    /\ Len(games) = 1
    /\ games[1].ply_count = 0
    /\ games[1].termination = ""
    /\ games[1].time_control = "60+1"

\* The block has the three mandatory fields.
WellFormed(b) ==
    ~b.blank /\ Carries(b.White) /\ Carries(b.Black) /\ Carries(b.Result)

\* The positions of the well-formed blocks of the input.
WellFormedAt == {k \in DOMAIN content : WellFormed(content[k])}

\* The position of the j-th well-formed block.
NthWellFormed(j) ==
    CHOOSE k \in WellFormedAt : Cardinality({i \in WellFormedAt : i <= k}) = j

\* C13: the parsed sequence has one record per well-formed block, in the
\* order of the blocks, however many malformed blocks stand between them.
C13_SkipMalformed ==
    Parsed =>
        /\ Len(games) = Cardinality(WellFormedAt)
        /\ \A j \in DOMAIN games :
              LET b == content[NthWellFormed(j)]
              IN  /\ games[j].white = b.White[1]
                  /\ games[j].black = b.Black[1]
                  /\ games[j].result = b.Result[1]

C13_Witness ==
    /\ Parsed
    /\ Len(content) = 3
    /\ content[1] = GameBlock("A", "B", "1-0")
    /\ ~WellFormed(content[2])
    /\ ~content[2].blank
    /\ content[3] = GameBlock("B", "A", "1/2-1/2")
    /\ Len(games) = 2
    /\ games[1].white = "A"
    /\ games[2].white = "B"
    /\ games[2].result = "1/2-1/2"

\* C14: when the path exists and no valid record was parsed, the run ends
\* with a non-zero exit code and a diagnostic; no participant list, no
\* statistics, no chart and no report was computed, and no file was written.
C14_EmptyInput ==
    (Parsed /\ pgn_exists /\ games = <<>>) =>
        /\ pc \in {"parsed", "exit"}
        /\ pc = "exit" => (exit_code > 0 /\ diag = "no_games")
        /\ pc = "parsed" => (exit_code = -1 /\ diag = "")
        /\ players = <<>>
        /\ stats = NoStats
        /\ charts = 0
        /\ local = NoLocal
        /\ report = NoReport
        /\ files = {}

C14_Witness ==
    /\ pgn_exists
    /\ Len(content) = 2
    /\ ~WellFormed(content[1])
    /\ ~WellFormed(content[2])
    /\ games = <<>>
    /\ pc = "exit"
    /\ exit_code = 1
    /\ diag = "no_games"
    /\ files = {}

\* C15: when the given path does not exist, the run ends with a non-zero exit
\* code and a diagnostic; nothing was parsed, aggregated or reported and the
\* output directory was not created.
C15_InputNotFound ==
    (has_arg /\ ~pgn_exists) =>
        /\ pc \in {"main", "exit"}
        /\ pc = "exit" => (exit_code > 0 /\ diag = "not_found")
        /\ pc = "main" => (exit_code = -1 /\ diag = "")
        /\ out_dir # "created"
        /\ games = <<>>
        /\ players = <<>>
        /\ stats = NoStats
        /\ charts = 0
        /\ local = NoLocal
        /\ report = NoReport
        /\ files = {}

C15_Witness ==
    /\ has_arg
    /\ ~pgn_exists
    /\ pc = "exit"
    /\ exit_code = 1
    /\ diag = "not_found"
    /\ out_dir = "absent"

\* The process has ended.
Terminated == pc \in {"exit", "crashed", "done"}

\* C16: a run whose path exists and whose input has at least one valid record
\* ends with exit code 0, after every plot call returned and with the report
\* file written into the output directory, whatever the number of
\* participants (one included).
C16_SuccessPath ==
    (Terminated /\ pgn_exists /\ games # <<>>) =>
        /\ pc = "done"
        /\ exit_code = 0
        /\ charts = Len(PlotCalls)
        /\ out_dir \in {"present", "created"}
        /\ SummaryFile \in files
        /\ report # NoReport

\* The steps of a run in their order; the two ways of ending early last.
PcOrder ==
    <<"main", "dir", "parsed", "players", "stats", "report_aggregated",
      "report_ranked", "report_written", "done", "exit", "crashed">>

PcRank(x) == CHOOSE k \in DOMAIN PcOrder : PcOrder[k] = x

\* Some aggregation has run.
AggregationStarted ==
    players # <<>> \/ stats # NoStats \/ local # NoLocal \/ report # NoReport

\* The report has its ranking.
Ranked == local # NoLocal /\ "sorted_algos" \in DOMAIN local

\* What has been computed so far was computed from complete predecessors.
C17_Order ==
    /\ AggregationStarted =>
          (Parsed /\ Len(games) = Cardinality(WellFormedAt))
    /\ stats # NoStats => stats = calculate_overall_stats(games, players)
    /\ local # NoLocal =>
          /\ local.stats = calculate_overall_stats(games, players)
          /\ local.h2h = calculate_head_to_head(games, players)
    /\ Ranked => local.sorted_algos = sorted_by_score_percent(players, local.stats)
    /\ report # NoReport =>
          /\ pc \in {"report_written", "done"}
          /\ Len(report.sorted_algos) = Len(players)
          /\ Len(report.ranking) = Len(players)
          /\ pc = "report_written" => report.sorted_algos = local.sorted_algos
    /\ SummaryFile \in files => report # NoReport

\* A step starts without a fatal diagnostic and moves the run forward.
C17_Step ==
    /\ diag = ""
    /\ exit_code = -1
    /\ \/ PcRank(pc') > PcRank(pc)
       \/ pc' = pc /\ pc = "stats" /\ charts' = charts + 1

\* C17: the input is fully parsed before any aggregation, the statistics and
\* the matrix of the report are complete before the ranking, the ranking is
\* complete before the report document, and the file is written after all of
\* them; no step follows a fatal condition and no step is taken twice.
C17_PipelineOrder == [](C17_Order) /\ [][C17_Step]_vars

C17_Witness ==
    /\ pc = "report_written"
    /\ Len(content) = 3
    /\ Len(games) = 2
    /\ Ranked
    /\ Len(local.sorted_algos) = 2
    /\ report.sorted_algos = local.sorted_algos
    /\ SummaryFile \in files
    /\ charts = Len(PlotCalls)

\* C18: whatever order the set of get_all_players is iterated in, a run has
\* the participant order, the statistics, the matrix, the ranking and the
\* dominance lists that the input determines: two runs on the same input
\* agree on all of them.
C18_Determinism ==
    LET gs == parse_pgn(content)
        ps == get_all_players(gs)
    IN  /\ Parsed => games = gs
        /\ players # <<>> => players = ps
        /\ stats # NoStats => stats = calculate_overall_stats(gs, ps)
        /\ local # NoLocal =>
              /\ local.stats = calculate_overall_stats(gs, ps)
              /\ local.h2h = calculate_head_to_head(gs, ps)
        /\ Ranked =>
              local.sorted_algos =
                  sorted_by_score_percent(ps, calculate_overall_stats(gs, ps))
        /\ report # NoReport => report = summary_report(gs, ps)

C18_Witness ==
    /\ pc = "done"
    /\ content = <<GameBlock("B", "A", "1/2-1/2"), GameBlock("B", "A", "1-0"),
                   GameBlock("A", "B", "1-0")>>
    /\ players = <<"A", "B">>
    /\ RatEq(score_percent(report.stats["A"]), score_percent(report.stats["B"]))
    /\ report.sorted_algos = <<"A", "B">>
    /\ report.dominance = <<>>

\* main has its participant list.
Enumerated == Parsed /\ pc \notin {"parsed", "exit"}

\* C19: the participant list of a run holds exactly the identifiers that
\* occur as white or black of a record, each once, in ascending order; so
\* both sides of every record are in the list.
C19_ParticipantList ==
    Enumerated =>
        /\ \A n \in Names :
              n \in Range(players) <=>
                  \E k \in DOMAIN games : games[k].white = n \/ games[k].black = n
        /\ Range(players) \subseteq Names
        /\ \A i, j \in DOMAIN players :
              i < j => NameRank(players[i]) < NameRank(players[j])
        /\ \A k \in DOMAIN games :
              games[k].white \in Range(players) /\ games[k].black \in Range(players)

C19_Witness ==
    /\ Enumerated
    /\ pc = "players"
    /\ Len(games) = 2
    /\ games[1].white = "B"
    /\ games[1].black = "A"
    /\ games[2].white = "B"
    /\ players = <<"A", "B">>

\* The two comparisons were called on the dataset.
BothCalled == DOMAIN outcome = {"nps_comparison", "depth_comparison"}

\* The rows of algorithm a.
RowsOf(a) == SelectSeq(df.rows, LAMBDA r : r["algorithm"] = a)

Needs(name, c) == c \in Range(step_reads(name, df))

\* C21: when a call of a tabular run has failed for a missing column, every
\* call of the run that does not need that column was executed and returned
\* its output, whether it stands before or after the failing call.
C21_MissingColumnLocal ==
    Terminated =>
        \A failed \in DOMAIN outcome :
            outcome[failed].kind = "KeyError" =>
                \A k \in DOMAIN TabCalls :
                    ~Needs(TabCalls[k], outcome[failed].column) =>
                        /\ TabCalls[k] \in DOMAIN outcome
                        /\ outcome[TabCalls[k]].kind = "ok"

\* The folders that exist and hold a matching file.
LoadedFolders == {k \in DOMAIN folders : folders[k].exists /\ folders[k].csv # {}}

RECURSIVE RowsBefore(_)
\* The rows of the sources loaded from the folders before folder k.
RowsBefore(k) ==
    IF k = 1 THEN 0
    ELSE RowsBefore(k - 1)
             + (IF k - 1 \in LoadedFolders THEN Len(local.csv[k - 1].rows) ELSE 0)

\* C22: the combined dataset holds the rows of the file loaded from each
\* existing folder with a matching file, in the order 500ms, 2000ms, 5000ms,
\* each row with the time_limit of its folder; a folder that is missing or
\* has no matching file adds no row; the row count is the sum of the row
\* counts of the loaded files; with no file at all the load raises an error
\* and returns no dataset.
C22_LoadAllResults ==
    /\ pc = "crashed" => (LoadedFolders = {} /\ diag = "ValueError" /\ df = NoData)
    /\ pc = "loaded" =>
          /\ LoadedFolders # {}
          /\ \A k \in LoadedFolders : local.csv[k] \in folders[k].csv
          /\ Len(df.rows) = RowsBefore(Len(folders) + 1)
          /\ \A k \in LoadedFolders :
                \A j \in DOMAIN local.csv[k].rows :
                    LET r == df.rows[RowsBefore(k) + j]
                    IN  /\ "time_limit" \in DOMAIN r
                        /\ r["time_limit"] = TimeFolders[k]
                        /\ r["algorithm"] = local.csv[k].rows[j]["algorithm"]

C22_Witness ==
    /\ pc = "loaded"
    /\ ~folders[1].exists
    /\ folders[2].exists
    /\ Cardinality(folders[2].csv) = 2
    /\ "time_limit" \in local.csv[2].columns
    /\ folders[3].exists
    /\ Len(df.rows) = 2
    /\ df.rows[1] = [algorithm |-> "A", time_limit |-> 2000]
    /\ df.rows[2] = [algorithm |-> "B", time_limit |-> 5000]

\* The sections of the report in their order.
SectionOrder == <<"header", "ranking", "head_to_head", "conclusions", "dominance">>

SectionRank(sec) == CHOOSE k \in DOMAIN SectionOrder : SectionOrder[k] = sec

\* The lines of one section of the written report.
LinesOf(sec) == SelectSeq(report.lines, LAMBDA l : l.section = sec)

\* C23: the report has its sections in the order header, ranked table,
\* head-to-head, conclusions (best, worst, then the dominance lines); the
\* header gives the number of parsed valid records and the participant list
\* in enumeration order; the ranked table has one row per participant, in
\* ranking order, each participant once.
C23_SectionOrder ==
    report # NoReport =>
        LET L == report.lines
            n == Len(players)
        IN  /\ \A i, j \in DOMAIN L :
                  i < j => SectionRank(L[i].section) <= SectionRank(L[j].section)
            /\ LinesOf("header") =
                   <<[section |-> "header", what |-> "total",
                      value |-> Cardinality(WellFormedAt)],
                     [section |-> "header", what |-> "participants",
                      value |-> players]>>
            /\ Len(LinesOf("ranking")) = n
            /\ \A k \in 1..n :
                  /\ LinesOf("ranking")[k].what = k
                  /\ LinesOf("ranking")[k].value.algo = report.sorted_algos[k]
            /\ \A p \in Range(players) :
                  Cardinality({k \in 1..n : LinesOf("ranking")[k].value.algo = p}) = 1
            /\ LinesOf("head_to_head") # <<>>
            /\ LinesOf("conclusions") =
                   <<[section |-> "conclusions", what |-> "best",
                      value |-> report.best_algo],
                     [section |-> "conclusions", what |-> "worst",
                      value |-> report.worst_algo]>>
            /\ Len(LinesOf("dominance")) = Len(report.dominance)

C23_Witness ==
    /\ pc = "done"
    /\ Len(content) = 3
    /\ Len(games) = 2
    /\ players = <<"A", "B">>
    /\ report.sorted_algos = <<"B", "A">>
    /\ Len(report.lines) = 11
    /\ report.lines[3].value.algo = "B"
    /\ report.lines[11] = [section |-> "dominance", what |-> "B", value |-> <<"A">>]

\* The statistics and the matrix held anywhere in the run are those of main's
\* records and participant list.
C24_Equal ==
    /\ local # NoLocal =>
          /\ local.stats = stats
          /\ local.h2h = calculate_head_to_head(games, players)
    /\ report # NoReport =>
          /\ report.stats = stats
          /\ report.h2h = calculate_head_to_head(games, players)
          /\ report.total_games = Len(games)
          /\ report.algorithms = players

\* A step that aggregates, plots or reports leaves the record sequence and
\* the participant list as they were.
C24_Frame ==
    pc \in {"players", "stats", "report_aggregated", "report_ranked",
            "report_written"} =>
        (games' = games /\ players' = players)

\* C24: the aggregations modify neither the record sequence nor the
\* participant list, so the statistics of main, the statistics and the matrix
\* the report recomputes and every matrix recomputed from them later in the
\* run are equal.
C24_PureAggregation == [](C24_Equal) /\ [][C24_Frame]_vars

C24_Witness ==
    /\ pc = "report_written"
    /\ Len(games) = 3
    /\ Len(players) = 2
    /\ local.stats = stats
    /\ report.stats = stats
    /\ stats["A"].wins > 0
    /\ report.h2h["A"]["B"].wins > 0

RECURSIVE SumOver(_, _)
\* The sum of f over the set S.
SumOver(f, S) ==
    IF S = {} THEN 0
    ELSE LET x == CHOOSE y \in S : TRUE
         IN  f[x] + SumOver(f, S \ {x})

\* Both sides of every record are in the participant list.
FullList == player_set(games) \subseteq Range(players)

\* C25: after the aggregation of N records over a participant list that
\* holds both sides of every record, the games of all participants sum to
\* 2*N, their wins sum to their losses, and their scores sum to N
\* (2*wins + draws sums to 2*N).
C25_Conservation ==
    (Aggregated /\ FullList) =>
        LET P == DOMAIN stats
            N == Len(games)
        IN  /\ SumOver([p \in P |-> games_of(stats[p])], P) = 2 * N
            /\ SumOver([p \in P |-> stats[p].wins], P)
                   = SumOver([p \in P |-> stats[p].losses], P)
            /\ SumOver([p \in P |-> 2 * stats[p].wins + stats[p].draws], P) = 2 * N
            /\ SumOver([p \in P |-> score(stats[p]).num], P) = 2 * N
            /\ \A p \in P : score(stats[p]).den = 2

C25_Witness ==
    /\ Aggregated
    /\ FullList
    /\ players = <<"A", "B", "C">>
    /\ Len(games) = 3
    /\ games[1].result = "1-0"
    /\ games[2].result = "*"
    /\ games[3].result = "1/2-1/2"
    /\ stats["A"].wins + stats["B"].wins = 1
    /\ stats["A"].draws + stats["B"].draws = 4

\* C26: after the aggregation over a participant list that holds both sides
\* of every record, the overall wins of every participant A are the sum over
\* all participants B of the pairwise wins of A against B, and the overall
\* losses of A the sum of the pairwise losses.
C26_StatsMatrixConsistent ==
    (Reported /\ FullList) =>
        LET P == Range(players)
        IN  \A A \in P :
                /\ report.stats[A].wins
                       = SumOver([B \in P |-> report.h2h[A][B].wins], P)
                /\ report.stats[A].losses
                       = SumOver([B \in P |-> report.h2h[A][B].losses], P)

C26_Witness ==
    /\ Reported
    /\ FullList
    /\ players = <<"B", "A">>
    /\ Len(games) = 3
    /\ report.stats["A"].wins = 2
    /\ report.stats["A"].losses = 1
    /\ report.h2h["A"]["B"].wins = 2
    /\ report.h2h["A"]["B"].losses = 1
    /\ \E k \in DOMAIN games : games[k].white = "B" /\ games[k].result = "0-1"

\* C27: the report never lists both "A dominates B" and "B dominates A" for
\* two different participants, and when A and B have a pairwise total above
\* zero, the pairwise score of A against B plus that of B against A is the
\* total.
C27_DominanceAsymmetric ==
    Reported =>
        \A A, B \in Range(players) :
            A # B =>
                /\ ~(ListedDominating(A, B) /\ ListedDominating(B, A))
                /\ h2h_total(report.h2h[A][B]) > 0 =>
                      (2 * report.h2h[A][B].wins + report.h2h[A][B].draws)
                          + (2 * report.h2h[B][A].wins + report.h2h[B][A].draws)
                      = 2 * h2h_total(report.h2h[A][B])

C27_Witness ==
    /\ Reported
    /\ ListedDominating("A", "B")
    /\ ~ListedDominating("B", "A")
    /\ report.h2h["A"]["B"].wins = 2
    /\ report.h2h["B"]["A"].wins = 1
    /\ h2h_total(report.h2h["B"]["A"]) = 3

\* The record sequence with the records at i and j exchanged. Exchanges of
\* two records generate every permutation, and every sequence within the
\* bounds is examined.
Exchanged(gs, i, j) ==
    [k \in DOMAIN gs |-> IF k = i THEN gs[j] ELSE IF k = j THEN gs[i] ELSE gs[k]]

\* The record sequence with record k given from the other side's seat:
\* (X, Y, "1-0") for (Y, X, "0-1") and the reverse.
Recoloured(gs, k) ==
    LET turned(r) == [gs EXCEPT ![k] = [@ EXCEPT !.white = gs[k].black,
                                                !.black = gs[k].white,
                                                !.result = r]]
    IN  IF gs[k].result = "1-0" THEN turned("0-1")
        ELSE IF gs[k].result = "0-1" THEN turned("1-0")
        ELSE gs

\* The wins, draws and losses of every participant.
WinsDrawsLosses(st) ==
    [p \in DOMAIN st |-> <<st[p].wins, st[p].draws, st[p].losses>>]

\* The aggregation of gs gives the counts and the matrix of the report.
SameAggregates(gs) ==
    /\ WinsDrawsLosses(calculate_overall_stats(gs, players))
           = WinsDrawsLosses(report.stats)
    /\ calculate_head_to_head(gs, players) = report.h2h

\* C28: the wins, draws and losses of every participant and every entry of
\* the matrix stay the same when the records are permuted and when a record
\* (X, Y, "1-0") is replaced by (Y, X, "0-1") or the reverse.
C28_OrderColourIndependent ==
    Reported =>
        /\ \A i, j \in DOMAIN games : SameAggregates(Exchanged(games, i, j))
        /\ \A k \in DOMAIN games : SameAggregates(Recoloured(games, k))

C28_Witness ==
    /\ Reported
    /\ players = <<"A", "B">>
    /\ Len(games) = 3
    /\ games[1].white = "A"
    /\ games[1].result = "1-0"
    /\ games[2].white = "A"
    /\ games[2].result = "0-1"
    /\ games[3].white = "B"
    /\ games[3].result = "1/2-1/2"
    /\ Recoloured(games, 1) # games
    /\ Exchanged(games, 1, 3) # games
    /\ report.stats["A"].wins = 1
    /\ report.h2h["B"]["A"].wins = 1

\* The stats s after its owner was credited the outcome (its win, its loss,
\* or else a draw) and the plies of record g.
Credited(s, won, lost, g) ==
    LET s1 == IF won THEN [s EXCEPT !.wins = @ + 1]
              ELSE IF lost THEN [s EXCEPT !.losses = @ + 1]
              ELSE [s EXCEPT !.draws = @ + 1]
    IN  IF g.ply_count > 0
        THEN [s1 EXCEPT !.total_plies = @ + g.ply_count,
                        !.games_with_plies = @ + 1]
        ELSE s1

\* C29: for a record whose two sides are not both in the participant list,
\* calculate_head_to_head leaves the whole matrix as it was, and
\* calculate_overall_stats changes only the stats of the side that is in the
\* list, crediting it the win, loss or draw and the plies, and makes no
\* entry for the absent side.
C29_PartialList ==
    (Reported /\ games # <<>>) =>
        LET g     == Last(games)
            prevM == calculate_head_to_head(Front(games), players)
            prevS == calculate_overall_stats(Front(games), players)
        IN  ~(InList(g.white) /\ InList(g.black)) =>
                /\ report.h2h = prevM
                /\ DOMAIN report.stats = Range(players)
                /\ \A p \in Range(players) :
                      p \notin {g.white, g.black} => report.stats[p] = prevS[p]
                /\ InList(g.white) =>
                      report.stats[g.white] =
                          Credited(prevS[g.white], g.result = "1-0",
                                   g.result = "0-1", g)
                /\ InList(g.black) =>
                      report.stats[g.black] =
                          Credited(prevS[g.black], g.result = "0-1",
                                   g.result = "1-0", g)

C29_Witness ==
    /\ Reported
    /\ players = <<"C", "A">>
    /\ Len(games) = 2
    /\ games[2].white = "B"
    /\ games[2].black = "A"
    /\ games[2].result = "0-1"
    /\ games[2].ply_count = 40
    /\ report.stats["A"].wins = 1
    /\ report.stats["A"].total_plies = 40
    /\ "B" \notin DOMAIN report.stats
    /\ report.h2h = h2h_init(players)

====
